---------------------------- MODULE Spec2Model ----------------------------
(***************************************************************************)
(* Threatelligence: the risk bands and the indicator patterns of the      *)
(* frontend API client (frontend/src/api/client.js), and the indicator    *)
(* pipeline (extract, sightings ledger, enrichment coordinator) that the  *)
(* design document describes; then the pages of the frontend (IOCList,   *)
(* ArticleList, ArticleDetail, FeedList and the two Dashboards): their    *)
(* React state, the requests they have in flight and what the user does.  *)
(*                                                                         *)
(* Strings are sequences of one-character strings.  A risk score is a     *)
(* number held in thousandths (74999 is 74.999).                          *)
(***************************************************************************)
EXTENDS Integers, Sequences, FiniteSets, TLC

VARIABLES
    score,      \* the risk score being rendered, in thousandths
    level,      \* the text getRiskLevel returned for it ("unset" before)
    color,      \* the colour getRiskColor returned for it ("unset" before)
    value,      \* the string handed to validateIOC
    type,       \* the type handed to validateIOC ("none" before the call)
    result,     \* what validateIOC returned
    sightings,  \* the store's ledger: the (indicator, article id) pairs
    count,      \* the sighting count of each indicator
    cache,      \* the current Enrichment of each indicator, with its age
    inflight,   \* the enrichment in flight for each indicator, if any
    workers,    \* each worker's process call: what it has yet to enrich,
                \* what it awaits and what it has got
    extractedIn, \* history: the (indicator, article id) pairs extracted
    reprocessed, \* history: some process call found every indicator of its
                 \* text already attributed to its article
    route,      \* the frontend component the router has mounted ("none"
                \* while no page of the frontend is being looked at)
    view,       \* the mounted component's state: one field per useState
    calls,      \* the component's asynchronous calls that await a response
    server,     \* what the backend holds that the mounted page changes
    clock,      \* the time, in minutes since the component was mounted
    hist        \* history: what the mounted page has been told so far

riskVars == <<score, level, color>>
valVars  == <<value, type, result>>
coreVars == <<sightings, count, cache, inflight, workers, extractedIn,
              reprocessed>>
uiVars   == <<route, view, calls, server, clock, hist>>
vars     == <<score, level, color, value, type, result, sightings, count,
              cache, inflight, workers, extractedIn, reprocessed,
              route, view, calls, server, clock, hist>>

(***************************************************************************)
(* Risk bands: getRiskColor and getRiskLevel.                              *)
(***************************************************************************)

\* Largest score rendered, in whole points.
MaxScore == 100

\* The thresholds of the two functions, in thousandths.
CriticalThreshold == 75000
HighThreshold     == 50000
MediumThreshold   == 25000

Scores == 0 .. (MaxScore * 1000)

CriticalColor == "#dc3545"
HighColor     == "#fd7e14"
MediumColor   == "#ffc107"
LowColor      == "#28a745"

\* Variant: the High threshold of the colour is exclusive.
getRiskColorExclusive(riskScore) ==
    IF riskScore >= CriticalThreshold THEN CriticalColor
    ELSE IF riskScore > HighThreshold THEN HighColor
    ELSE IF riskScore >= MediumThreshold THEN MediumColor
    ELSE LowColor

getRiskColor(riskScore) ==
    IF riskScore >= CriticalThreshold THEN CriticalColor
    ELSE IF riskScore >= HighThreshold THEN HighColor
    ELSE IF riskScore >= MediumThreshold THEN MediumColor
    ELSE LowColor

\* Variant: the Critical threshold of the level is exclusive.
getRiskLevelExclusive(riskScore) ==
    IF riskScore > CriticalThreshold THEN "Critical"
    ELSE IF riskScore >= HighThreshold THEN "High"
    ELSE IF riskScore >= MediumThreshold THEN "Medium"
    ELSE "Low"

getRiskLevel(riskScore) ==
    IF riskScore >= CriticalThreshold THEN "Critical"
    ELSE IF riskScore >= HighThreshold THEN "High"
    ELSE IF riskScore >= MediumThreshold THEN "Medium"
    ELSE "Low"

\* A RiskBadge is rendered: its text is the level of the score.
RenderRiskLevel ==
    /\ level' = getRiskLevel(score)
    /\ UNCHANGED <<score, color>>
    /\ UNCHANGED valVars
    /\ UNCHANGED <<coreVars, uiVars>>

\* A RiskBadge is styled: its background is the colour of the score.
RenderRiskColor ==
    /\ color' = getRiskColor(score)
    /\ UNCHANGED <<score, level>>
    /\ UNCHANGED valVars
    /\ UNCHANGED <<coreVars, uiVars>>


(***************************************************************************)
(* Regular expressions, as validateIOC's RegExp.test uses them.  A pattern *)
(* is a tree; Ends(re, s, S) is the set of positions at which a match of   *)
(* re that starts at a position of S can end (position i is before s[i]).     *)
(*  All four patterns are anchored with ^ and $ and carry no       *)
(* flags, so test(s) is a match of the whole of s.                         *)
(***************************************************************************)

Cls(set)          == [op |-> "cls", set |-> set]
NotCls(set)       == [op |-> "ncls", set |-> set]
Cat(l, r)         == [op |-> "cat", l |-> l, r |-> r]
Alt(l, r)         == [op |-> "alt", l |-> l, r |-> r]
\* body{min,max}; max = -1 is "no upper limit".
Rep(body, min, max) == [op |-> "rep", body |-> body, min |-> min, max |-> max]
Opt(body)         == Rep(body, 0, 1)
Star(body)        == Rep(body, 0, -1)
Lit(c)            == Cls({c})

RECURSIVE Ends(_, _, _)
RECURSIVE RepEnds(_, _, _, _, _)

Ends(re, s, S) ==
    IF S = {} THEN {}
    ELSE CASE re.op = "cls"  ->
                {i + 1 : i \in {j \in S : j <= Len(s) /\ s[j] \in re.set}}
           [] re.op = "ncls" ->
                {i + 1 : i \in {j \in S : j <= Len(s) /\ s[j] \notin re.set}}
           [] re.op = "cat"  -> Ends(re.r, s, Ends(re.l, s, S))
           [] re.op = "alt"  -> Ends(re.l, s, S) \cup Ends(re.r, s, S)
           [] re.op = "rep"  -> RepEnds(re.body, re.min, re.max, s, S)

\* body{min,max} is body{h} body{min-h,max-h}, and body{0,max} is
\* body{0,h} body{0,max-h}: halving keeps the evaluation shallow on long
\* strings.  A repetition without upper limit needs no more rounds than
\* s has positions, and a round that adds no position is the last.
RepEnds(body, min, max, s, S) ==
    IF S = {} THEN {}
    ELSE IF min > 1 THEN
        LET h == min \div 2
        IN  RepEnds(body, min - h, IF max < 0 THEN max ELSE max - h, s,
                    RepEnds(body, h, h, s, S))
    ELSE IF min = 1 THEN
        RepEnds(body, 0, IF max < 0 THEN max ELSE max - 1, s,
                Ends(body, s, S))
    ELSE IF max = 0 THEN S
    ELSE IF max = 1 THEN S \cup Ends(body, s, S)
    ELSE IF max < 0 THEN RepEnds(body, 0, Len(s) + 1, s, S)
    ELSE LET h == max \div 2
             T == RepEnds(body, 0, h, s, S)
         IN  IF T = S THEN S ELSE RepEnds(body, 0, max - h, s, T)

\* RegExp.prototype.test of an anchored pattern.
Test(re, s) == (Len(s) + 1) \in Ends(re, s, {1})

Digit == {"0", "1", "2", "3", "4", "5", "6", "7", "8", "9"}
Lower == {"a", "b", "c", "d", "e", "f", "g", "h", "i", "j", "k", "l", "m",
          "n", "o", "p", "q", "r", "s", "t", "u", "v", "w", "x", "y", "z"}
Upper == {"A", "B", "C", "D", "E", "F", "G", "H", "I", "J", "K", "L", "M",
          "N", "O", "P", "Q", "R", "S", "T", "U", "V", "W", "X", "Y", "Z"}
Alpha        == Lower \cup Upper
AlNum        == Alpha \cup Digit
AlNumHyphen  == AlNum \cup {"-"}
HexDigit     == Digit \cup {"a", "b", "c", "d", "e", "f",
                            "A", "B", "C", "D", "E", "F"}
\* The grave accent, which a TLA+ string cannot hold.
Backtick == "U+0060"
\* Whitespace (\s) and the other characters the URL class excludes.
UrlExcluded  == {" ", "\t", "\n", "\r", "\f",
                 "<", ">", "\"", "{", "}", "|", "\\", "^", Backtick, "[", "]"}

\* /^(?:[0-9]{1,3}\.){3}[0-9]{1,3}$/
IpPattern ==
    Cat(Rep(Cat(Rep(Cls(Digit), 1, 3), Lit(".")), 3, 3),
        Rep(Cls(Digit), 1, 3))

\* Variant: a label may be 64 characters long.
DomainLabelLong ==
    Cat(Cls(AlNum), Opt(Cat(Rep(Cls(AlNumHyphen), 0, 62), Cls(AlNum))))

\* [a-zA-Z0-9]([a-zA-Z0-9-]{0,61}[a-zA-Z0-9])?
DomainLabel ==
    Cat(Cls(AlNum), Opt(Cat(Rep(Cls(AlNumHyphen), 0, 61), Cls(AlNum))))

\* Variant: the last label may hold digits.
DomainPatternDigitTld ==
    Cat(DomainLabel,
        Cat(Star(Cat(Lit("."), DomainLabel)),
            Cat(Lit("."), Rep(Cls(AlNum), 2, -1))))

\* /^<label>(\.<label>)*\.[a-zA-Z]{2,}$/
DomainPattern ==
    Cat(DomainLabel,
        Cat(Star(Cat(Lit("."), DomainLabel)),
            Cat(Lit("."), Rep(Cls(Alpha), 2, -1))))

\* /^https?:\/\/[^...]+$/ with the excluded class above
UrlPattern ==
    Cat(Lit("h"), Cat(Lit("t"), Cat(Lit("t"), Cat(Lit("p"),
    Cat(Opt(Lit("s")),
    Cat(Lit(":"), Cat(Lit("/"), Cat(Lit("/"),
        Rep(NotCls(UrlExcluded), 1, -1)))))))))

\* Variant: any length from 32 to 128.
HashPatternAtLeast == Rep(Cls(HexDigit), 32, 128)

\* /^[a-fA-F0-9]{32}$|^[a-fA-F0-9]{40}$|^[a-fA-F0-9]{64}$|^[a-fA-F0-9]{128}$/
HashPattern ==
    Alt(Rep(Cls(HexDigit), 32, 32),
        Alt(Rep(Cls(HexDigit), 40, 40),
            Alt(Rep(Cls(HexDigit), 64, 64),
                Rep(Cls(HexDigit), 128, 128))))

PatternTypes == {"ip", "domain", "url", "hash"}

\* patterns[type]?.test(value) || false
validateIOC(v, t) ==
    CASE t = "ip"     -> Test(IpPattern, v)
      [] t = "domain" -> Test(DomainPattern, v)
      [] t = "url"    -> Test(UrlPattern, v)
      [] t = "hash"   -> Test(HashPattern, v)
      [] OTHER        -> FALSE


(***************************************************************************)
(* The strings validateIOC is tried on.                                    *)
(***************************************************************************)

\* Most dot-separated labels in a tried value.
MaxLabels == 4
\* Tried lengths lie within this distance of a digest length.
LenSlack == 1

Rpt(c, n) == [i \in 1 .. n |-> c]

RECURSIVE JoinDots(_)
JoinDots(ls) ==
    IF Len(ls) = 0 THEN <<>>
    ELSE IF Len(ls) = 1 THEN ls[1]
    ELSE ls[1] \o <<".">> \o JoinDots(Tail(ls))

LabelPool ==
    {<<>>, Rpt("a", 63), Rpt("a", 64),
     <<"0">>,
     <<"2", "5", "5">>,
     <<"2", "5", "6">>,
     <<"1", "2", "3", "4">>,
     <<"a">>,
     <<"c", "o">>,
     <<"c", "0">>,
     <<"-", "a">>,
     <<"a", "-">>,
     <<"a", "-", "b">>}

CoreLabels ==
    {<<"0">>,
     <<"2", "5", "5">>,
     <<"2", "5", "6">>,
     <<"1", "2", "3", "4">>,
     <<"a">>,
     <<"c", "o">>}

\* Up to three labels from the whole pool, longer values from the core.
DotValues ==
    UNION {{JoinDots(ls) : ls \in [1 .. n -> IF n <= 3 THEN LabelPool
                                              ELSE CoreLabels]}
           : n \in 1 .. MaxLabels}

DigestLens == {32, 40, 64, 128}
TriedLens ==
    {n \in 1 .. (128 + LenSlack) :
        \E d \in DigestLens : n >= d - LenSlack /\ n <= d + LenSlack}
    \cup {1, 16}
OddChars == {"a", "f", "F", "A", "0", "9", "g", "G", ".", "-", " ", ":", "\n"}

\* One character repeated, with one other character first or last.
RunValues ==
    {[i \in 1 .. n |-> IF i = p THEN x ELSE c] :
        n \in TriedLens, p \in {1, 2}, c \in {"a", "0"}, x \in OddChars}
    \cup {[i \in 1 .. n |-> IF i = n THEN x ELSE c] :
        n \in TriedLens, c \in {"a", "0"}, x \in OddChars}

Schemes ==
    {<<"h", "t", "t", "p", ":", "/", "/">>,
     <<"h", "t", "t", "p", "s", ":", "/", "/">>,
     <<"h", "t", "t", "p", "s", "s", ":", "/", "/">>,
     <<"h", "t", "t", "p", ":", "/">>,
     <<"f", "t", "p", ":", "/", "/">>,
     <<"H", "T", "T", "P", ":", "/", "/">>}
UrlBodies ==
    {<<>>, Rpt("a", 32), <<"a", Backtick>>,
     <<"a">>,
     <<"a", ".", "c", "o">>,
     <<"a", ".", "c", "o", "/", "x", "?", "y", "=", "1">>,
     <<"a", " ", "b">>,
     <<"a", "<", "b">>,
     <<"1", ".", "2", ".", "3", ".", "4">>}
SchemeValues == {sc \o b : sc \in Schemes, b \in UrlBodies}

InputValues == DotValues \cup RunValues \cup SchemeValues
InputTypes  == PatternTypes \cup {"email"}

\* validateIOC(value, type) is called and returns.
Validate(t) ==
    /\ type' = t
    /\ result' = validateIOC(value, t)
    /\ UNCHANGED value
    /\ UNCHANGED riskVars
    /\ UNCHANGED <<coreVars, uiVars>>

(***************************************************************************)
(* The indicator pipeline of the design document: Extractor, sightings     *)
(* ledger, Enrichment Coordinator (cache, request collapsing, fan-out,     *)
(* aggregation) and Pipeline Orchestrator.  Callers give no timeout and    *)
(* the store is up.  A lookup is one call of a Provider Gateway; the       *)
(* gateway's retries are attempts within that call.                        *)
(***************************************************************************)

NumWorkers  == 3
NumArticles == 2
\* Enrichment time-to-live, in clock ticks.
TTL == 2
\* Attempts of one lookup, retries included.
MaxAttempts == 2
\* Global cap on provider calls in progress.
GlobalLimit == 2

Workers   == 1 .. NumWorkers
Articles  == 1 .. NumArticles
Providers == {"abuseipdb", "virustotal"}
None      == [st |-> "none"]

\* The words of the article texts: their type and their normalized value.
TokenType ==
    [tok \in {"Contact", "and", "8.8.8.8", "evil-domain.test",
              "Evil-Domain.TEST"} |->
        CASE tok = "8.8.8.8" -> "ip"
          [] tok \in {"evil-domain.test", "Evil-Domain.TEST"} -> "domain"
          [] OTHER -> "none"]

Normalized ==
    [tok \in DOMAIN TokenType |->
        IF tok = "Evil-Domain.TEST" THEN "evil-domain.test" ELSE tok]

Indicators == {<<"ip", "8.8.8.8">>, <<"domain", "evil-domain.test">>}

Texts ==
    {<<"Contact">>,
     <<"Contact", "8.8.8.8", "and", "8.8.8.8">>,
     <<"Evil-Domain.TEST">>,
     <<"8.8.8.8", "and", "evil-domain.test", "Evil-Domain.TEST">>}

\* extract(articleText): the set of typed, normalized indicators.
extract(text) ==
    {<<TokenType[text[k]], Normalized[text[k]]>> :
        k \in {j \in 1 .. Len(text) : TokenType[text[j]] # "none"}}

\* Variant: every run of an article counts its indicators again.
NewSightingsEveryRun(inds, a) == inds

\* recordSighting: the pairs (indicator, a) not yet in the ledger.
NewSightings(inds, a) == {i \in inds : <<i, a>> \notin sightings}

\* What a provider can answer.
OkResults  ==
    [p \in Providers |->
        IF p = "abuseipdb" THEN {[score |-> 80, conf |-> 90]}
        ELSE {[score |-> 20, conf |-> 50]}]
ErrorKinds == {"RateLimited", "Timeout", "InvalidIndicator", "Unavailable"}
Retryable  == {"RateLimited", "Timeout", "Unavailable"}

Queued           == [st |-> "queued", attempt |-> 0, score |-> 0, conf |-> 0]
Calling(k)       == [st |-> "calling", attempt |-> k, score |-> 0, conf |-> 0]
Answered(r)      == [st |-> "ok", attempt |-> 0, score |-> r.score,
                     conf |-> r.conf]
Failed           == [st |-> "err", attempt |-> 0, score |-> 0, conf |-> 0]

RECURSIVE SumOver(_, _)
SumOver(S, f) ==
    IF S = {} THEN 0
    ELSE LET x == CHOOSE y \in S : TRUE
         IN  f[x] + SumOver(S \ {x}, f)

\* Variant: a failed provider is averaged in as a zero score.
AggregateFailedAsZero(slots) ==
    LET ok   == {p \in Providers : slots[p].st = "ok"}
        wsum == SumOver(ok, [p \in Providers |-> slots[p].score * slots[p].conf])
        csum == SumOver(ok, [p \in Providers |-> slots[p].conf])
        all  == csum + 100 * Cardinality(Providers \ ok)
    IN  [base        |-> IF ok = {} \/ csum = 0 THEN 0 ELSE wsum \div all,
         conf        |-> csum \div Cardinality(Providers),
         unavailable |-> ok = {},
         contributors |-> ok]

\* The Enrichment of the providers' answers: the average of the successful
\* base scores weighted by confidence; a failed provider is absent.
Aggregate(slots) ==
    LET ok   == {p \in Providers : slots[p].st = "ok"}
        wsum == SumOver(ok, [p \in Providers |-> slots[p].score * slots[p].conf])
        csum == SumOver(ok, [p \in Providers |-> slots[p].conf])
    IN  [base        |-> IF ok = {} \/ csum = 0 THEN 0 ELSE wsum \div csum,
         conf        |-> csum \div Cardinality(Providers),
         unavailable |-> ok = {},
         contributors |-> ok]

CacheFresh(i) == cache[i].st = "cached" /\ cache[i].age < TTL

CallsInProgress ==
    Cardinality({ip \in Indicators \X Providers :
                    /\ inflight[ip[1]].st = "flying"
                    /\ inflight[ip[1]].slots[ip[2]].st = "calling"})

Idle == [st |-> "idle", todo |-> {}, waiting |-> {}, results |-> {}]

\* process(articleId, text) up to the enrich calls: extract once, record
\* the sightings.
Process(w, a, txt) ==
    /\ workers[w].st = "idle"
    /\ LET inds == extract(txt)
           new  == NewSightings(inds, a)
       IN  /\ sightings' = sightings \cup {<<i, a>> : i \in inds}
           /\ count' = [i \in Indicators |->
                           IF i \in new THEN count[i] + 1 ELSE count[i]]
           /\ extractedIn' = extractedIn \cup {<<i, a>> : i \in inds}
           /\ reprocessed' =
                 (\/ reprocessed
                  \/ (inds # {} /\ \A i \in inds : <<i, a>> \in extractedIn))
           /\ workers' = [workers EXCEPT ![w] =
                 [st |-> "busy", todo |-> inds, waiting |-> {},
                  results |-> {}]]
    /\ UNCHANGED <<cache, inflight>>
    /\ UNCHANGED <<riskVars, valVars, uiVars>>

\* Variant: a caller that finds an enrichment in flight fans out again.
EnrichNoCollapse(w, i) ==
    /\ workers[w].st = "busy"
    /\ i \in workers[w].todo
    /\ IF CacheFresh(i) THEN
          /\ workers' = [workers EXCEPT
                ![w].todo = @ \ {i},
                ![w].results = @ \cup
                    {[ind |-> i, enr |-> cache[i].enr, via |-> "cache"]}]
          /\ UNCHANGED inflight
       ELSE
          /\ workers' = [workers EXCEPT
                ![w].todo = @ \ {i}, ![w].waiting = @ \cup {i}]
          /\ inflight' = [inflight EXCEPT ![i] =
                [st |-> "flying",
                 slots |-> [p \in Providers |-> Queued],
                 calls |-> IF inflight[i].st = "flying"
                           THEN inflight[i].calls
                           ELSE [p \in Providers |-> 0]]]
    /\ UNCHANGED <<sightings, count, cache, extractedIn, reprocessed>>
    /\ UNCHANGED <<riskVars, valVars, uiVars>>

\* Variant: the cache is not consulted.
EnrichNoCacheCheck(w, i) ==
    /\ workers[w].st = "busy"
    /\ i \in workers[w].todo
    /\ workers' = [workers EXCEPT
          ![w].todo = @ \ {i}, ![w].waiting = @ \cup {i}]
    /\ IF inflight[i].st = "flying" THEN UNCHANGED inflight
       ELSE inflight' = [inflight EXCEPT ![i] =
                [st |-> "flying",
                 slots |-> [p \in Providers |-> Queued],
                 calls |-> [p \in Providers |-> 0]]]
    /\ UNCHANGED <<sightings, count, cache, extractedIn, reprocessed>>
    /\ UNCHANGED <<riskVars, valVars, uiVars>>

\* enrich(indicator), called by a process call for one of its indicators:
\* the cache first, then the enrichment in flight, else a new fan-out.
Enrich(w, i) ==
    /\ workers[w].st = "busy"
    /\ i \in workers[w].todo
    /\ IF CacheFresh(i) THEN
          /\ workers' = [workers EXCEPT
                ![w].todo = @ \ {i},
                ![w].results = @ \cup
                    {[ind |-> i, enr |-> cache[i].enr, via |-> "cache"]}]
          /\ UNCHANGED inflight
       ELSE
          /\ workers' = [workers EXCEPT
                ![w].todo = @ \ {i}, ![w].waiting = @ \cup {i}]
          /\ IF inflight[i].st = "flying" THEN UNCHANGED inflight
             ELSE inflight' = [inflight EXCEPT ![i] =
                      [st |-> "flying",
                       slots |-> [p \in Providers |-> Queued],
                       calls |-> [p \in Providers |-> 0]]]
    /\ UNCHANGED <<sightings, count, cache, extractedIn, reprocessed>>
    /\ UNCHANGED <<riskVars, valVars, uiVars>>

\* The fan-out calls a gateway's lookup, within the global limit.
IssueLookup(i, p) ==
    /\ inflight[i].st = "flying"
    /\ inflight[i].slots[p].st = "queued"
    /\ CallsInProgress < GlobalLimit
    /\ inflight' = [inflight EXCEPT
          ![i].slots[p] = Calling(1),
          ![i].calls[p] = @ + 1]
    /\ UNCHANGED <<sightings, count, cache, workers, extractedIn,
                   reprocessed>>
    /\ UNCHANGED <<riskVars, valVars, uiVars>>

\* A lookup's attempt succeeds: the lookup returns a ProviderResult.
LookupSucceeds(i, p, r) ==
    /\ inflight[i].st = "flying"
    /\ inflight[i].slots[p].st = "calling"
    /\ inflight' = [inflight EXCEPT
          ![i].slots[p] = Answered(r)]
    /\ UNCHANGED <<sightings, count, cache, workers, extractedIn,
                   reprocessed>>
    /\ UNCHANGED <<riskVars, valVars, uiVars>>

\* A lookup's attempt fails: retried after backoff when the error is
\* retryable and attempts remain, else the lookup returns a ProviderError.
LookupFails(i, p, kind) ==
    /\ inflight[i].st = "flying"
    /\ inflight[i].slots[p].st = "calling"
    /\ LET k == inflight[i].slots[p].attempt
       IN  inflight' = [inflight EXCEPT ![i].slots[p] =
               IF kind \in Retryable /\ k < MaxAttempts
               THEN Calling(k + 1) ELSE Failed]
    /\ UNCHANGED <<sightings, count, cache, workers, extractedIn,
                   reprocessed>>
    /\ UNCHANGED <<riskVars, valVars, uiVars>>

\* Every lookup has returned: aggregate, write the cache, hand the one
\* Enrichment to every caller awaiting it.
Complete(i) ==
    /\ inflight[i].st = "flying"
    /\ \A p \in Providers : inflight[i].slots[p].st \in {"ok", "err"}
    /\ LET enr == Aggregate(inflight[i].slots)
       IN  /\ cache' = [cache EXCEPT ![i] =
                  [st |-> "cached", enr |-> enr, age |-> 0]]
           /\ workers' = [w \in Workers |->
                  IF i \in workers[w].waiting
                  THEN [workers[w] EXCEPT
                          !.waiting = @ \ {i},
                          !.results = @ \cup
                              {[ind |-> i, enr |-> enr, via |-> "flight"]}]
                  ELSE workers[w]]
    /\ inflight' = [inflight EXCEPT ![i] = None]
    /\ UNCHANGED <<sightings, count, extractedIn, reprocessed>>
    /\ UNCHANGED <<riskVars, valVars, uiVars>>

\* process returns its list of enriched indicators.
Return(w) ==
    /\ workers[w].st = "busy"
    /\ workers[w].todo = {}
    /\ workers[w].waiting = {}
    /\ workers' = [workers EXCEPT ![w] = Idle]
    /\ UNCHANGED <<sightings, count, cache, inflight, extractedIn,
                   reprocessed>>
    /\ UNCHANGED <<riskVars, valVars, uiVars>>

\* Time passes: every cached Enrichment ages, up to its expiry.
Tick ==
    /\ \E i \in Indicators : CacheFresh(i)
    /\ cache' = [i \in Indicators |->
          IF CacheFresh(i) THEN [cache[i] EXCEPT !.age = @ + 1]
          ELSE cache[i]]
    /\ UNCHANGED <<sightings, count, inflight, workers, extractedIn,
                   reprocessed>>
    /\ UNCHANGED <<riskVars, valVars, uiVars>>

(***************************************************************************)
(* Specifications.                                                         *)
(***************************************************************************)

RiskIdle == score = 0 /\ level = "unset" /\ color = "unset"
ValIdle  == value = <<>> /\ type = "none" /\ result = FALSE
CoreIdle ==
    /\ sightings = {}
    /\ count = [i \in Indicators |-> 0]
    /\ cache = [i \in Indicators |-> None]
    /\ inflight = [i \in Indicators |-> None]
    /\ workers = [w \in Workers |-> Idle]
    /\ extractedIn = {}
    /\ reprocessed = FALSE
UiIdle ==
    /\ route = "none"
    /\ view = <<>>
    /\ calls = {}
    /\ server = {}
    /\ clock = 0
    /\ hist = <<>>

InitRisk ==
    /\ score \in Scores
    /\ level = "unset"
    /\ color = "unset"
    /\ ValIdle
    /\ CoreIdle
    /\ UiIdle

NextRisk == RenderRiskLevel \/ RenderRiskColor

SpecRisk == InitRisk /\ [][NextRisk]_vars

InitValidate ==
    /\ value \in InputValues
    /\ type = "none"
    /\ result = FALSE
    /\ RiskIdle
    /\ CoreIdle
    /\ UiIdle

NextValidate == \E t \in InputTypes : Validate(t)

SpecValidate == InitValidate /\ [][NextValidate]_vars

InitCore == CoreIdle /\ RiskIdle /\ ValIdle /\ UiIdle

\* The steps of the pipeline with workers W, article ids A, texts T,
\* each provider's possible results R and provider error kinds K.
NextCore(W, A, T, R, K) ==
    \/ \E w \in W, a \in A, txt \in T : Process(w, a, txt)
    \/ \E w \in W, i \in Indicators : Enrich(w, i)
    \/ \E i \in Indicators, p \in Providers : IssueLookup(i, p)
    \/ \E i \in Indicators, p \in Providers : \E r \in R[p] :
          LookupSucceeds(i, p, r)
    \/ \E i \in Indicators, p \in Providers, kind \in K :
          LookupFails(i, p, kind)
    \/ \E i \in Indicators : Complete(i)
    \/ \E w \in W : Return(w)
    \/ Tick

\* Many workers on one article and one indicator, every provider answer.
EnrichTexts == {<<"Contact">>, <<"Contact", "8.8.8.8", "and", "8.8.8.8">>}
SpecEnrich ==
    InitCore /\ [][NextCore(Workers, {1}, EnrichTexts, OkResults,
                            ErrorKinds)]_vars

\* One worker on every article and text, one answer and one error.
SpecProcess ==
    InitCore /\ [][NextCore({1}, Articles, Texts,
                            [p \in Providers |-> {[score |-> 80, conf |-> 90]}],
                            {"Timeout"})]_vars


(***************************************************************************)
(* Properties of the risk bands.                                           *)
(***************************************************************************)

\* C1: getRiskLevel maps a score to one level by lower-inclusive
\* thresholds: >= 75 Critical, [50, 75) High, [25, 50) Medium, < 25 Low;
\* 74.999 is High and 75.0 Critical, 49.999 Medium and 50.0 High, 24.999
\* Low and 25.0 Medium.
RiskLevelBands ==
    level # "unset" =>
        /\ level \in {"Critical", "High", "Medium", "Low"}
        /\ (level = "Critical") = (score >= 75000)
        /\ (level = "High")     = (score >= 50000 /\ score < 75000)
        /\ (level = "Medium")   = (score >= 25000 /\ score < 50000)
        /\ (level = "Low")      = (score < 25000)
        /\ (score = 74999 => level = "High")
        /\ (score = 75000 => level = "Critical")
        /\ (score = 49999 => level = "Medium")
        /\ (score = 50000 => level = "High")
        /\ (score = 24999 => level = "Low")
        /\ (score = 25000 => level = "Medium")

\* The level of 74.999 has been rendered, and it is High.
RiskLevelBoundaryRendered == score = 74999 /\ level = "High"

\* C10: the colour of a score is the colour of its level, band by band,
\* with the thresholds 75 / 50 / 25.
ColorAgreesWithLevel ==
    (level # "unset" /\ color # "unset") =>
        /\ (color = CriticalColor) = (level = "Critical")
        /\ (color = HighColor)     = (level = "High")
        /\ (color = MediumColor)   = (level = "Medium")
        /\ (color = LowColor)      = (level = "Low")
        /\ (color = CriticalColor) = (score >= 75000)
        /\ (color = HighColor)     = (score >= 50000 /\ score < 75000)
        /\ (color = MediumColor)   = (score >= 25000 /\ score < 50000)

\* Colour and level of 50.0 have both been rendered: orange and High.
ColorAndLevelRendered ==
    score = 50000 /\ level = "High" /\ color = HighColor

(***************************************************************************)
(* Properties of validateIOC.                                              *)
(***************************************************************************)

RECURSIVE SplitFrom(_, _, _)
SplitFrom(s, i, cur) ==
    IF i > Len(s) THEN <<cur>>
    ELSE IF s[i] = "." THEN <<cur>> \o SplitFrom(s, i + 1, <<>>)
    ELSE SplitFrom(s, i + 1, Append(cur, s[i]))

\* The dot-separated parts of s.
SplitDots(s) == SplitFrom(s, 1, <<>>)

DigitVal ==
    "0" :> 0 @@ "1" :> 1 @@ "2" :> 2 @@ "3" :> 3 @@ "4" :> 4 @@
    "5" :> 5 @@ "6" :> 6 @@ "7" :> 7 @@ "8" :> 8 @@ "9" :> 9

RECURSIVE Decimal(_)
Decimal(ds) ==
    IF Len(ds) = 0 THEN 0
    ELSE 10 * Decimal(SubSeq(ds, 1, Len(ds) - 1)) + DigitVal[ds[Len(ds)]]

IsOctet(part) ==
    /\ Len(part) >= 1
    /\ \A i \in 1 .. Len(part) : part[i] \in Digit
    /\ Decimal(part) <= 255

IsDottedQuad(s) ==
    LET parts == SplitDots(s)
    IN  Len(parts) = 4 /\ \A k \in 1 .. 4 : IsOctet(parts[k])

IsLabel(part) ==
    /\ Len(part) >= 1
    /\ Len(part) <= 63
    /\ \A i \in 1 .. Len(part) : part[i] \in AlNumHyphen
    /\ part[1] # "-"
    /\ part[Len(part)] # "-"

IsLabelledDomain(s) ==
    LET parts == SplitDots(s)
    IN  /\ Len(parts) >= 2
        /\ \A k \in 1 .. Len(parts) : IsLabel(parts[k])
        /\ Len(parts[Len(parts)]) >= 2

\* C4: a value accepted for one of ip, domain, url, hash is accepted for
\* no other of them.
PatternsExclusive ==
    (type \in PatternTypes /\ result) =>
        \A t \in PatternTypes \ {type} : ~validateIOC(value, t)

\* A value has been accepted as a domain.
DomainAccepted == type = "domain" /\ result

\* C5: a value is accepted as a hash exactly when it holds only
\* hexadecimal digits, of either case, and is 32, 40, 64 or 128 long.
HashExactlyHexDigest ==
    type = "hash" =>
        (result = (/\ Len(value) \in {32, 40, 64, 128}
                   /\ \A i \in 1 .. Len(value) : value[i] \in HexDigit))

\* A 128-character value has been accepted as a hash.
Sha512Accepted == type = "hash" /\ result /\ Len(value) = 128

\* C6: a value is accepted as an ip exactly when it is four dot-separated
\* decimal octets, each a number in 0..255.
IpExactlyDottedQuad ==
    type = "ip" => (result = IsDottedQuad(value))

\* C7 as stated: a value is accepted as a domain exactly when it is two or
\* more dot-separated labels of 1 to 63 letters, digits and hyphens, none
\* starting or ending with a hyphen, the last at least 2 long.
DomainExactlyLabels ==
    type = "domain" => (result = IsLabelledDomain(value))

IsLetterTld(part) ==
    /\ Len(part) >= 2
    /\ \A i \in 1 .. Len(part) : part[i] \in Alpha

IsDomainWithLetterTld(s) ==
    LET parts == SplitDots(s)
    IN  /\ Len(parts) >= 2
        /\ \A k \in 1 .. (Len(parts) - 1) : IsLabel(parts[k])
        /\ IsLetterTld(parts[Len(parts)])

\* C7 as amended: a value is accepted as a domain exactly when it is two or
\* more dot-separated labels, every label but the last of 1 to 63 letters,
\* digits and hyphens and neither starting nor ending with a hyphen, and
\* the last label of 2 or more letters only, with no upper limit.
DomainExactlyLetterTld ==
    type = "domain" => (result = IsDomainWithLetterTld(value))

\* A domain whose last label is 64 letters long has been accepted.
LongTldAccepted ==
    /\ type = "domain"
    /\ result
    /\ Len(SplitDots(value)[Len(SplitDots(value))]) = 64


(***************************************************************************)
(* Properties of the pipeline.                                             *)
(***************************************************************************)

Waiting(i) == {w \in Workers : i \in workers[w].waiting}
Landed(i)  == inflight[i].st = "flying" /\ inflight'[i].st = "none"
OkOf(slots) == {p \in Providers : slots[p].st = "ok"}

\* C2: however many callers await an indicator's enrichment, each provider
\* gets exactly one lookup for it, and every caller awaiting it receives
\* the one Enrichment that is written to the cache.
CollapsedLookups ==
    [][/\ \A i \in Indicators : inflight'[i].st = "flying" =>
              \A p \in Providers : inflight'[i].calls[p] <= 1
       /\ \A i \in Indicators : Landed(i) =>
              /\ \A p \in Providers : inflight[i].calls[p] = 1
              /\ \A w \in Waiting(i) :
                    {r \in workers'[w].results : r.ind = i} =
                       {[ind |-> i, enr |-> cache'[i].enr, via |-> "flight"]}
      ]_vars

\* All workers await one indicator's enrichment, and each provider has been
\* looked up once and has answered.
CollapsedGroupOfAll ==
    \E i \in Indicators :
        /\ inflight[i].st = "flying"
        /\ \A w \in Workers : i \in workers[w].waiting
        /\ \A p \in Providers :
              /\ inflight[i].calls[p] = 1
              /\ inflight[i].slots[p].st \in {"ok", "err"}

\* C3: the sighting count of an indicator is the number of distinct article
\* ids it was extracted in; it never decreases, and a process call whose
\* indicators are all attributed to its article already changes no count.
SightingsIdempotent ==
    [][/\ \A i \in Indicators :
              count'[i] = Cardinality({a \in Articles :
                                          <<i, a>> \in extractedIn'})
       /\ \A i \in Indicators : count'[i] >= count[i]
       /\ count' # count =>
              \A w \in Workers, a \in Articles, txt \in Texts :
                  ~(/\ \A i \in extract(txt) : <<i, a>> \in extractedIn
                    /\ Process(w, a, txt))
      ]_vars

\* An article has been processed again, and the ip has been seen in both
\* articles, the domain in one.
ReprocessedArticle ==
    /\ reprocessed
    /\ count[<<"ip", "8.8.8.8">>] = 2
    /\ count[<<"domain", "evil-domain.test">>] = 1

\* C8: an enrich call made while a non-expired Enrichment is cached
\* returns that Enrichment, and starts or joins no fan-out.
CacheHitIssuesNoLookup ==
    [][\A w \in Workers, i \in Indicators :
          (/\ i \in workers[w].todo
           /\ i \notin workers'[w].todo
           /\ cache[i].st = "cached"
           /\ cache[i].age < TTL)
          => /\ inflight' = inflight
             /\ i \notin workers'[w].waiting
             /\ [ind |-> i, enr |-> cache[i].enr, via |-> "cache"]
                   \in workers'[w].results
      ]_vars

\* A worker holds an Enrichment it was given from the cache.
CacheHitServed ==
    \E w \in Workers : \E r \in workers[w].results :
        r.via = "cache" /\ inflight[r.ind].st = "none"

\* C9: when the lookups have returned, an Enrichment is written and handed
\* to every caller; with no successful provider it has base score 0,
\* confidence 0 and the unavailable flag; its base score is the
\* confidence-weighted average of the successful providers alone.
ProviderFailureAbsorbed ==
    [][\A i \in Indicators : Landed(i) =>
          LET slots == inflight[i].slots
              ok    == OkOf(slots)
              enr   == cache'[i].enr
              wsum  == SumOver(ok, [p \in Providers |->
                                       slots[p].score * slots[p].conf])
              csum  == SumOver(ok, [p \in Providers |-> slots[p].conf])
          IN  /\ cache'[i].st = "cached"
              /\ enr.unavailable = (ok = {})
              /\ enr.contributors = ok
              /\ (ok = {} => enr.base = 0 /\ enr.conf = 0)
              /\ \A p \in Providers : ok = {p} => enr.base = slots[p].score
              /\ (ok # {} => /\ enr.base * csum <= wsum
                             /\ wsum < (enr.base + 1) * csum)
              /\ \A w \in Waiting(i) : \E r \in workers'[w].results :
                    r.ind = i /\ r.enr = enr
      ]_vars

\* A worker holds the Enrichment of an indicator whose providers all
\* failed.
UnavailableServed ==
    \E w \in Workers : \E r \in workers[w].results :
        /\ r.via = "flight"
        /\ r.enr.unavailable
        /\ r.enr.base = 0
        /\ r.enr.conf = 0

(***************************************************************************)
(* The pages of the frontend (frontend/src/components).  The router        *)
(* mounts one page component at a time.  view holds the component's        *)
(* useState values under their own names; calls holds the asynchronous     *)
(* calls of the component that are waiting for the backend.  An await      *)
(* resumes in one step: everything the handler does up to its next await   *)
(* is one action.  A function that a handler or an effect calls reads the  *)
(* state of the render that created it, so each call carries the values   *)
(* it closed over.                                                         *)
(***************************************************************************)

Null == "null"

\* The summary modes, and the articles of the backend.
Modes == {"soc", "researcher", "executive"}
ArticleIds == {1, 2}

\* ------------------------------------------------------------------------
\* IOCList and ArticleList: the paged lists.
\* ------------------------------------------------------------------------

ITEMS_PER_PAGE == 20

\* How many list requests a page issues, the one at mount included.
MaxLoads == 3
\* How many items the backend holds for any filter.
TotalItems == 45

IocTypeOptions == {"", "ip"}
MinRiskScoreInputs == {"", "50"}
FilterFields == {"ioc_type", "min_risk_score"}
FilterInputs == [ioc_type |-> IocTypeOptions,
                 min_risk_score |-> MinRiskScoreInputs]
NoFilters == [ioc_type |-> "", min_risk_score |-> ""]

\* The items a component shows before any response: an empty list.
NoItems == [answers |-> [none |-> TRUE], length |-> 0]

\* loadIOCs builds skip, limit and the filters, then deletes the empty ones.
IOCParams(currentPage, filters) ==
    LET params == [skip |-> currentPage * ITEMS_PER_PAGE,
                   limit |-> ITEMS_PER_PAGE,
                   ioc_type |-> filters.ioc_type,
                   min_risk_score |-> filters.min_risk_score]
        kept == {"skip", "limit"} \cup {k \in FilterFields : filters[k] # ""}
    IN  [k \in kept |-> params[k]]

ArticleParams(currentPage) ==
    [skip |-> currentPage * ITEMS_PER_PAGE, limit |-> ITEMS_PER_PAGE]

\* What the backend answers to a list request: the slice skip..skip+limit.
ListResponse(params) ==
    LET left == TotalItems - params.skip
    IN  [answers |-> params,
         length |-> IF left <= 0 THEN 0
                    ELSE IF left < params.limit THEN left ELSE params.limit]

hasActiveFilters == \E k \in FilterFields : view.filters[k] # ""

\* loadIOCs as the render with state v, page and filters created it.
IOCList_loadIOCs(v, currentPage, filters) ==
    /\ hist.issued < MaxLoads
    /\ view' = [v EXCEPT !.loading = TRUE]
    /\ calls' = calls \cup {[id |-> hist.issued + 1, api |-> "getIOCs",
                             params |-> IOCParams(currentPage, filters)]}
    /\ hist' = [hist EXCEPT !.issued = @ + 1]
    /\ UNCHANGED <<route, server, clock>>
    /\ UNCHANGED <<riskVars, valVars, coreVars>>

\* A filter control changes: the filter is set, the page goes back to 0,
\* and the effect on [currentPage, filters] loads the list.
IOCList_handleFilterChange(field, newValue) ==
    /\ route = "IOCList"
    /\ newValue # view.filters[field]
    /\ LET v == [view EXCEPT !.filters[field] = newValue,
                             !.currentPage = 0]
       IN  IOCList_loadIOCs(v, v.currentPage, v.filters)

IOCList_clearFilters ==
    /\ route = "IOCList"
    /\ hasActiveFilters
    /\ LET v == [view EXCEPT !.filters = NoFilters, !.currentPage = 0]
       IN  IOCList_loadIOCs(v, v.currentPage, v.filters)

\* Previous and Next: shown while there are items, Previous disabled on
\* page 0 and Next disabled on a short page.
IOCList_handlePageChange(newPage) ==
    /\ route = "IOCList"
    /\ view.iocs.length > 0
    /\ \/ newPage = view.currentPage - 1 /\ view.currentPage # 0
       \/ newPage = view.currentPage + 1
          /\ view.iocs.length >= ITEMS_PER_PAGE
    /\ LET v == [view EXCEPT !.currentPage = newPage]
       IN  IOCList_loadIOCs(v, v.currentPage, v.filters)

\* The Apply Filters button calls loadIOCs; it is disabled while loading.
IOCList_applyFilters ==
    /\ route = "IOCList"
    /\ ~view.loading
    /\ IOCList_loadIOCs(view, view.currentPage, view.filters)

\* The awaited getIOCs resolves: try block, then finally.
IOCList_getIOCsResolves(c) ==
    /\ route = "IOCList"
    /\ c \in calls
    /\ view' = [view EXCEPT !.iocs = ListResponse(c.params),
                            !.error = Null,
                            !.loading = FALSE]
    /\ calls' = calls \ {c}
    /\ UNCHANGED <<route, server, clock, hist>>
    /\ UNCHANGED <<riskVars, valVars, coreVars>>

\* The awaited getIOCs rejects: catch block, then finally.
IOCList_getIOCsRejects(c) ==
    /\ route = "IOCList"
    /\ c \in calls
    /\ view' = [view EXCEPT !.error = "Failed to load IOCs",
                            !.loading = FALSE]
    /\ calls' = calls \ {c}
    /\ UNCHANGED <<route, server, clock, hist>>
    /\ UNCHANGED <<riskVars, valVars, coreVars>>

\* loadArticles as the render with state v and page created it.
ArticleList_loadArticles(v, currentPage) ==
    /\ hist.issued < MaxLoads
    /\ view' = [v EXCEPT !.loading = TRUE]
    /\ calls' = calls \cup {[id |-> hist.issued + 1, api |-> "getArticles",
                             params |-> ArticleParams(currentPage)]}
    /\ hist' = [hist EXCEPT !.issued = @ + 1]
    /\ UNCHANGED <<route, server, clock>>
    /\ UNCHANGED <<riskVars, valVars, coreVars>>

\* Previous and Next, with the effect on [currentPage].
ArticleList_handlePageChange(newPage) ==
    /\ route = "ArticleList"
    /\ view.articles.length > 0
    /\ \/ newPage = view.currentPage - 1 /\ view.currentPage # 0
       \/ newPage = view.currentPage + 1
          /\ view.articles.length >= ITEMS_PER_PAGE
    /\ LET v == [view EXCEPT !.currentPage = newPage]
       IN  ArticleList_loadArticles(v, v.currentPage)

ArticleList_getArticlesResolves(c) ==
    /\ route = "ArticleList"
    /\ c \in calls
    /\ c.api = "getArticles"
    /\ view' = [view EXCEPT !.articles = ListResponse(c.params),
                            !.error = Null,
                            !.loading = FALSE]
    /\ calls' = calls \ {c}
    /\ UNCHANGED <<route, server, clock, hist>>
    /\ UNCHANGED <<riskVars, valVars, coreVars>>

ArticleList_getArticlesRejects(c) ==
    /\ route = "ArticleList"
    /\ c \in calls
    /\ c.api = "getArticles"
    /\ view' = [view EXCEPT !.error = "Failed to load articles",
                            !.loading = FALSE]
    /\ calls' = calls \ {c}
    /\ UNCHANGED <<route, server, clock, hist>>
    /\ UNCHANGED <<riskVars, valVars, coreVars>>

\* The useState initial values, and the state once the mount effect has
\* called the load function.
IOCListState ==
    [iocs |-> NoItems, loading |-> FALSE, error |-> Null, currentPage |-> 0,
     filters |-> NoFilters]
ArticleListState ==
    [articles |-> NoItems, loading |-> FALSE, error |-> Null,
     currentPage |-> 0,
     summaries |-> [k \in ArticleIds \X Modes |-> "null"],
     summaryLoading |-> [k \in ArticleIds \X Modes |-> FALSE],
     activeModes |-> [a \in ArticleIds |-> "null"]]

InitLists ==
    /\ route \in {"IOCList", "ArticleList"}
    /\ view = IF route = "IOCList"
              THEN [IOCListState EXCEPT !.loading = TRUE]
              ELSE [ArticleListState EXCEPT !.loading = TRUE]
    /\ calls = {IF route = "IOCList"
                THEN [id |-> 1, api |-> "getIOCs",
                      params |-> IOCParams(0, NoFilters)]
                ELSE [id |-> 1, api |-> "getArticles",
                      params |-> ArticleParams(0)]}
    /\ hist = [issued |-> 1]
    /\ server = {}
    /\ clock = 0
    /\ RiskIdle /\ ValIdle /\ CoreIdle

NextLists ==
    \/ \E field \in FilterFields : \E newValue \in FilterInputs[field] :
          IOCList_handleFilterChange(field, newValue)
    \/ IOCList_clearFilters
    \/ \E newPage \in 0..MaxLoads : IOCList_handlePageChange(newPage)
    \/ IOCList_applyFilters
    \/ \E c \in calls : IOCList_getIOCsResolves(c)
    \/ \E c \in calls : IOCList_getIOCsRejects(c)
    \/ \E newPage \in 0..MaxLoads : ArticleList_handlePageChange(newPage)
    \/ \E c \in calls : ArticleList_getArticlesResolves(c)
    \/ \E c \in calls : ArticleList_getArticlesRejects(c)

SpecLists == InitLists /\ [][NextLists]_vars

\* C11: in IOCList and in ArticleList, once no list request is outstanding
\* (and the list shows no load error), the items shown are the backend's
\* answer for the current page and the current filters.
ListShowsLatestRequest ==
    (route \in {"IOCList", "ArticleList"} /\ calls = {}
       /\ view.error = Null)
    => IF route = "IOCList"
       THEN view.iocs
              = ListResponse(IOCParams(view.currentPage, view.filters))
       ELSE view.articles = ListResponse(ArticleParams(view.currentPage))

\* C13: in IOCList, loading is true exactly while some getIOCs request is
\* outstanding.
LoadingWhileOutstanding ==
    route = "IOCList" => (view.loading <=> calls # {})

\* ------------------------------------------------------------------------
\* The Dashboard that caches its fetches.  Times are in minutes.  A
\* timestamp that is null in the code is NullTime here.  The stats and the
\* threats shown are the backend's as of the minute they were asked for
\* (NullTime: the useState initial value); the overview shown is the hours
\* it was asked for (0: the initial null).
\* ------------------------------------------------------------------------

CacheTimeout == 2
AutoRefresh == 15

\* How long the page is watched, and how many times the user clicks.
MaxTime == 16
MaxClicks == 2

NullTime == -1
\* The time ranges the user picks (two of the four that timeRanges lists).
timeRanges == {1, 24}
Stages == {"stats", "threats", "overview"}
NoFetch == [stats |-> NullTime, threats |-> NullTime, overview |-> NullTime]

\* The cache test of loadDashboardData against the lastDataFetch it closed
\* over: never fetched, or fetched more than cacheTimeout before now.
CacheExpired(lastDataFetch, now, what) ==
    \/ lastDataFetch[what] = NullTime
    \/ now - lastDataFetch[what] > CacheTimeout

\* The first request a call awaits, and the one it awaits after stage pc.
FirstStage(lastDataFetch, now) ==
    IF CacheExpired(lastDataFetch, now, "stats") THEN "stats"
    ELSE IF CacheExpired(lastDataFetch, now, "threats") THEN "threats"
    ELSE "overview"
StageAfter(c) ==
    IF c.pc = "stats" /\ CacheExpired(c.lastDataFetch, c.now, "threats")
    THEN "threats"
    ELSE IF c.pc = "overview" THEN "done" ELSE "overview"

Later(t, u) == IF t > u THEN t ELSE u

\* loadDashboardData, created by a render with lastDataFetch and
\* selectedTimeRange, called for the reason by when the state is v: up to
\* its first await.
CachingDashboard_loadDashboardData(v, lastDataFetch, selectedTimeRange, by) ==
    LET pc == FirstStage(lastDataFetch, clock)
    IN  /\ view' = [v EXCEPT !.loading[pc] = TRUE]
        /\ calls' = calls \cup
              {[id |-> hist.calls + 1, by |-> by, now |-> clock,
                lastDataFetch |-> lastDataFetch,
                selectedTimeRange |-> selectedTimeRange, pc |-> pc]}
        /\ UNCHANGED <<route, server, clock>>
        /\ UNCHANGED <<riskVars, valVars, coreVars>>

\* The Refresh button, disabled while any part is loading.
CachingDashboard_handleRefresh ==
    /\ route = "CachingDashboard"
    /\ hist.clicks < MaxClicks
    /\ ~(view.loading.stats \/ view.loading.threats \/ view.loading.overview)
    /\ hist' = [hist EXCEPT !.calls = @ + 1, !.clicks = @ + 1,
                            !.cached = NoFetch]
    /\ CachingDashboard_loadDashboardData(
          [view EXCEPT !.lastDataFetch = NoFetch],
          view.lastDataFetch, view.selectedTimeRange, "refresh")

\* Variant: the effect calls the loadDashboardData of the render before
\* the change.
CachingDashboard_setSelectedTimeRangeStale(hours) ==
    /\ route = "CachingDashboard"
    /\ hist.clicks < MaxClicks
    /\ hours # view.selectedTimeRange
    /\ hist' = [hist EXCEPT !.calls = @ + 1, !.clicks = @ + 1]
    /\ CachingDashboard_loadDashboardData(
          [view EXCEPT !.selectedTimeRange = hours,
                       !.interval = [due |-> clock + AutoRefresh,
                                     lastDataFetch |-> view.lastDataFetch,
                                     selectedTimeRange |-> hours]],
          view.lastDataFetch, view.selectedTimeRange, "range")

\* A time range button: the state changes, and the effect on
\* [selectedTimeRange] clears the interval, loads and sets a new interval;
\* both use the loadDashboardData of this render.
CachingDashboard_setSelectedTimeRange(hours) ==
    /\ route = "CachingDashboard"
    /\ hist.clicks < MaxClicks
    /\ hours # view.selectedTimeRange
    /\ hist' = [hist EXCEPT !.calls = @ + 1, !.clicks = @ + 1]
    /\ CachingDashboard_loadDashboardData(
          [view EXCEPT !.selectedTimeRange = hours,
                       !.interval = [due |-> clock + AutoRefresh,
                                     lastDataFetch |-> view.lastDataFetch,
                                     selectedTimeRange |-> hours]],
          view.lastDataFetch, hours, "range")

\* The interval fires and calls the loadDashboardData the effect closed over.
CachingDashboard_interval ==
    /\ route = "CachingDashboard"
    /\ clock = view.interval.due
    /\ hist' = [hist EXCEPT !.calls = @ + 1]
    /\ CachingDashboard_loadDashboardData(
          [view EXCEPT !.interval.due = @ + AutoRefresh],
          view.interval.lastDataFetch, view.interval.selectedTimeRange,
          "timer")

\* What loadDashboardData does once the request of stage c.pc has settled
\* and left the state v: it issues the next request, or it ends with
\* setLastRefresh and setError(null).
CachingDashboard_continue(c, v) ==
    LET next == StageAfter(c)
    IN  /\ IF next = "done"
           THEN /\ view' = [v EXCEPT !.lastRefresh = clock, !.error = Null]
                /\ calls' = calls \ {c}
           ELSE /\ view' = [v EXCEPT !.loading[next] = TRUE]
                /\ calls' = (calls \ {c}) \cup {[c EXCEPT !.pc = next]}
        /\ UNCHANGED <<route, server, clock>>
        /\ UNCHANGED <<riskVars, valVars, coreVars>>

\* The awaited request resolves: the data and its timestamp (the now of
\* the call) are stored, then the finally block clears the loading flag.
CachingDashboard_requestResolves(c) ==
    /\ route = "CachingDashboard"
    /\ c \in calls
    /\ hist' = [hist EXCEPT !.cached[c.pc] = Later(@, c.now)]
    /\ CachingDashboard_continue(c,
          [view EXCEPT ![c.pc] = IF c.pc = "overview"
                                 THEN c.selectedTimeRange ELSE c.now,
                       !.lastDataFetch[c.pc] = c.now,
                       !.loading[c.pc] = FALSE])

\* The awaited request rejects: the error is logged, the flag is cleared.
CachingDashboard_requestRejects(c) ==
    /\ route = "CachingDashboard"
    /\ c \in calls
    /\ UNCHANGED hist
    /\ CachingDashboard_continue(c, [view EXCEPT !.loading[c.pc] = FALSE])

\* A minute passes.  The interval fires when it is due, and every call
\* ends within the minute it started in: requests are short on this scale
\* (the client gives a request 30 seconds).
CachingDashboard_minutePasses ==
    /\ route = "CachingDashboard"
    /\ clock < MaxTime
    /\ clock < view.interval.due
    /\ calls = {}
    /\ clock' = clock + 1
    /\ UNCHANGED <<route, view, calls, server, hist>>
    /\ UNCHANGED <<riskVars, valVars, coreVars>>

\* The useState initial values, and the page once the mount effect has
\* called loadDashboardData and set the interval.
CachingDashboardState ==
    [stats |-> NullTime, threats |-> NullTime, overview |-> 0,
     loading |-> [stats |-> TRUE, threats |-> TRUE, overview |-> TRUE],
     error |-> Null, selectedTimeRange |-> 24, lastRefresh |-> 0,
     lastDataFetch |-> NoFetch]

InitCachingDashboard ==
    /\ route = "CachingDashboard"
    /\ view = [s \in DOMAIN CachingDashboardState \cup {"interval"} |->
                 IF s = "interval"
                 THEN [due |-> AutoRefresh, lastDataFetch |-> NoFetch,
                       selectedTimeRange |-> 24]
                 ELSE CachingDashboardState[s]]
    /\ calls = {[id |-> 1, by |-> "mount", now |-> 0,
                 lastDataFetch |-> NoFetch, selectedTimeRange |-> 24,
                 pc |-> "stats"]}
    /\ hist = [calls |-> 1, clicks |-> 0, cached |-> NoFetch]
    /\ server = {}
    /\ clock = 0
    /\ RiskIdle /\ ValIdle /\ CoreIdle

NextCachingDashboard ==
    \/ CachingDashboard_handleRefresh
    \/ \E hours \in timeRanges : CachingDashboard_setSelectedTimeRange(hours)
    \/ CachingDashboard_interval
    \/ \E c \in calls : CachingDashboard_requestResolves(c)
    \/ \E c \in calls : CachingDashboard_requestRejects(c)
    \/ CachingDashboard_minutePasses

SpecCachingDashboard ==
    InitCachingDashboard /\ [][NextCachingDashboard]_vars

\* C12: every manual refresh reloads everything: the loadDashboardData call
\* that handleRefresh makes issues a stats request first, and a
\* recent-threats request once the stats request has settled (the overview
\* request follows), however recently stats and threats were fetched.
RefreshReloadsAll ==
    [][\A d \in calls' :
          d.by = "refresh" =>
            /\ (\A c \in calls : c.id # d.id) => d.pc = "stats"
            /\ \A c \in calls :
                  (c.id = d.id /\ c.pc = "stats" /\ d.pc # "stats")
                  => d.pc = "threats"]_vars

\* C15: a load made at mount, on a time range change or by the interval
\* issues no stats request (no recent-threats request) while the last
\* successful fetch of stats (of threats) since the last manual refresh is
\* less than 2 minutes old.
CacheHonoured ==
    [][\A d \in calls' :
          (d \notin calls /\ d.by \in {"mount", "range", "timer"}
             /\ d.pc \in {"stats", "threats"})
          => \/ hist.cached[d.pc] = NullTime
             \/ clock - hist.cached[d.pc] >= CacheTimeout]_vars

\* Every request settles: the client gives it 30 seconds, then it rejects.
SpecCachingDashboardLive ==
    /\ SpecCachingDashboard
    /\ WF_vars(\E c \in calls : \/ CachingDashboard_requestResolves(c)
                                 \/ CachingDashboard_requestRejects(c))

CallIds == 1..(1 + MaxClicks + (MaxTime \div AutoRefresh))

\* C19: every loadDashboardData call is made with the time range that is
\* selected when it is made, comes to its overview request whatever the
\* cache timestamps are, and ends only after that request; and every change
\* of selectedTimeRange starts a call with the new range.
OverviewAlwaysRequested ==
    /\ [][/\ \A d \in calls' :
               (\A c \in calls : c.id # d.id)
               => d.selectedTimeRange = view'.selectedTimeRange
          /\ view'.selectedTimeRange # view.selectedTimeRange
             => \E d \in calls' :
                   /\ \A c \in calls : c.id # d.id
                   /\ d.selectedTimeRange = view'.selectedTimeRange
          /\ \A c \in calls :
               (\A d \in calls' : d.id # c.id) => c.pc = "overview"]_vars
    /\ \A n \in CallIds :
          (\E c \in calls : c.id = n)
          ~> (\E c \in calls : c.id = n /\ c.pc = "overview")

\* A time range change while stats and threats are fresh in the cache: the
\* call goes straight to the overview request for the new range.
OverviewRequestedOnFreshCache ==
    \E c \in calls :
        /\ c.by = "range"
        /\ c.pc = "overview"
        /\ ~CacheExpired(c.lastDataFetch, c.now, "stats")
        /\ ~CacheExpired(c.lastDataFetch, c.now, "threats")
        /\ c.selectedTimeRange = 1
        /\ view.selectedTimeRange = 1

\* ------------------------------------------------------------------------
\* The Dashboard that awaits its three requests together (Promise.all).
\* A piece of data is the number of the loadDashboardData call that fetched
\* it (0: the useState initial value), lastRefresh is the number of the
\* call that set it (0: the mount), and the overview also tells the hours
\* it was asked for.
\* ------------------------------------------------------------------------

\* How many loadDashboardData calls are made, the one at mount included.
MaxDashboardLoads == 3

NoEvent == [id |-> 0, api |-> "none", ok |-> TRUE]

\* loadDashboardData of a render with selectedTimeRange, called when the
\* state is v: setLoading(true), then the three requests are sent.
Dashboard_loadDashboardData(v, selectedTimeRange) ==
    /\ hist.calls < MaxDashboardLoads
    /\ view' = [v EXCEPT !.loading = TRUE]
    /\ calls' = calls \cup {[id |-> hist.calls + 1,
                             selectedTimeRange |-> selectedTimeRange,
                             pending |-> Stages]}
    /\ hist' = [hist EXCEPT !.calls = @ + 1]
    /\ UNCHANGED <<route, server, clock>>
    /\ UNCHANGED <<riskVars, valVars, coreVars>>

\* The Refresh button, disabled while loading.
Dashboard_handleRefresh ==
    /\ route = "Dashboard"
    /\ ~view.loading
    /\ Dashboard_loadDashboardData(view, view.selectedTimeRange)

\* A time range button, then the effect on [selectedTimeRange].
Dashboard_setSelectedTimeRange(hours) ==
    /\ route = "Dashboard"
    /\ hours # view.selectedTimeRange
    /\ Dashboard_loadDashboardData([view EXCEPT !.selectedTimeRange = hours],
                                   hours)

\* The 5-minute interval fires.
Dashboard_interval ==
    /\ route = "Dashboard"
    /\ Dashboard_loadDashboardData(view, view.selectedTimeRange)

\* Variant: each response is shown as soon as it arrives.
Dashboard_requestResolvesEach(c, api) ==
    /\ route = "Dashboard"
    /\ c \in calls
    /\ api \in c.pending
    /\ hist' = [hist EXCEPT !.settled = [id |-> c.id, api |-> api,
                                         ok |-> TRUE]]
    /\ LET data == IF api = "overview"
                   THEN [call |-> c.id, hours |-> c.selectedTimeRange]
                   ELSE c.id
       IN  IF c.pending = {api}
           THEN /\ view' = [view EXCEPT ![api] = data,
                                        !.lastRefresh = c.id,
                                        !.error = Null,
                                        !.loading = FALSE]
                /\ calls' = calls \ {c}
           ELSE /\ view' = [view EXCEPT ![api] = data]
                /\ calls' = (calls \ {c})
                               \cup {[c EXCEPT !.pending = @ \ {api}]}
    /\ UNCHANGED <<route, server, clock>>
    /\ UNCHANGED <<riskVars, valVars, coreVars>>

\* One of the three requests of call c resolves.  Promise.all resolves with
\* the last of them, and then the try block and the finally block run.
Dashboard_requestResolves(c, api) ==
    /\ route = "Dashboard"
    /\ c \in calls
    /\ api \in c.pending
    /\ hist' = [hist EXCEPT !.settled = [id |-> c.id, api |-> api,
                                         ok |-> TRUE]]
    /\ IF c.pending = {api}
       THEN /\ view' = [view EXCEPT !.stats = c.id,
                                    !.threats = c.id,
                                    !.overview = [call |-> c.id,
                                      hours |-> c.selectedTimeRange],
                                    !.lastRefresh = c.id,
                                    !.error = Null,
                                    !.loading = FALSE]
            /\ calls' = calls \ {c}
       ELSE /\ UNCHANGED view
            /\ calls' = (calls \ {c}) \cup {[c EXCEPT !.pending = @ \ {api}]}
    /\ UNCHANGED <<route, server, clock>>
    /\ UNCHANGED <<riskVars, valVars, coreVars>>

\* One of the three requests of call c rejects.  Promise.all rejects at
\* once: the catch block and the finally block run, and what the other
\* requests of the call bring later is dropped.
Dashboard_requestRejects(c, api) ==
    /\ route = "Dashboard"
    /\ c \in calls
    /\ api \in c.pending
    /\ hist' = [hist EXCEPT !.settled = [id |-> c.id, api |-> api,
                                         ok |-> FALSE]]
    /\ view' = [view EXCEPT !.error = "Failed to load dashboard data",
                            !.loading = FALSE]
    /\ calls' = calls \ {c}
    /\ UNCHANGED <<route, server, clock>>
    /\ UNCHANGED <<riskVars, valVars, coreVars>>

DashboardState ==
    [stats |-> 0, threats |-> 0, overview |-> [call |-> 0, hours |-> 0],
     loading |-> TRUE, error |-> Null, selectedTimeRange |-> 24,
     lastRefresh |-> 0]

InitDashboard ==
    /\ route = "Dashboard"
    /\ view = DashboardState
    /\ calls = {[id |-> 1, selectedTimeRange |-> 24, pending |-> Stages]}
    /\ hist = [calls |-> 1, settled |-> NoEvent]
    /\ server = {}
    /\ clock = 0
    /\ RiskIdle /\ ValIdle /\ CoreIdle

NextDashboard ==
    \/ Dashboard_handleRefresh
    \/ \E hours \in timeRanges : Dashboard_setSelectedTimeRange(hours)
    \/ Dashboard_interval
    \/ \E c \in calls : \E api \in Stages : Dashboard_requestResolves(c, api)
    \/ \E c \in calls : \E api \in Stages : Dashboard_requestRejects(c, api)

SpecDashboard == InitDashboard /\ [][NextDashboard]_vars

\* C18: loadDashboardData is all-or-nothing.  When a request of a call
\* fails, error becomes 'Failed to load dashboard data', loading becomes
\* false and nothing else changes (stats, threats, overview and lastRefresh
\* stay); when the last of the three requests of a call succeeds, stats,
\* threats and overview are replaced together by that call's data, error
\* is cleared and loading becomes false; a response that is not the last
\* changes nothing.  So the three pieces shown always come from one call.
LoadAllOrNothing ==
    /\ [][hist'.settled # hist.settled =>
            LET e == hist'.settled
                c == CHOOSE c \in calls : c.id = e.id
            IN  IF ~e.ok
                THEN view' = [view EXCEPT
                                !.error = "Failed to load dashboard data",
                                !.loading = FALSE]
                ELSE IF c.pending = {e.api}
                THEN view' = [view EXCEPT
                                !.stats = e.id,
                                !.threats = e.id,
                                !.overview = [call |-> e.id,
                                  hours |-> c.selectedTimeRange],
                                !.lastRefresh = e.id,
                                !.error = Null,
                                !.loading = FALSE]
                ELSE view' = view]_vars
    /\ [](route = "Dashboard" =>
            /\ view.threats = view.stats
            /\ view.overview.call = view.stats
            /\ view.lastRefresh = view.stats)

\* A load fails after an earlier one succeeded: the earlier data stays and
\* the error is shown.
FailedLoadKeepsData ==
    /\ route = "Dashboard"
    /\ ~hist.settled.ok
    /\ hist.settled.id > view.stats
    /\ view.stats > 0
    /\ view.error = "Failed to load dashboard data"
    /\ ~view.loading

\* ------------------------------------------------------------------------
\* FeedList.  server is the backend's feeds (a feed is its id) and the next
\* id it gives.  A request is first served by the backend, which fixes the
\* reply, and the reply reaches the page later; replies of different
\* requests arrive in any order.
\* ------------------------------------------------------------------------

\* How many times the user submits the form or clicks a button.
MaxFeedClicks == 3

StoredFeeds == {1}
Unserved == [served |-> FALSE, ok |-> FALSE, data |-> <<>>]
Reply(ok, data) == [served |-> TRUE, ok |-> ok, data |-> data]

\* GET /feeds lists the feeds, here in the order of their ids.
FeedsListed(S) ==
    CHOOSE q \in [1..Cardinality(S) -> S] :
        \A i, j \in 1..Cardinality(S) : i < j => q[i] < q[j]
Shown(feeds) == {feeds[i] : i \in DOMAIN feeds}

\* A handler, on a click, leaves the state v and sends a request.
FeedList_send(v, api, feedId) ==
    /\ hist.clicks < MaxFeedClicks
    /\ view' = v
    /\ calls' = calls \cup {[id |-> hist.requests + 1, api |-> api,
                             feedId |-> feedId, from |-> "click",
                             reply |-> Unserved]}
    /\ hist' = [hist EXCEPT !.requests = @ + 1, !.clicks = @ + 1]
    /\ UNCHANGED <<route, server, clock>>
    /\ UNCHANGED <<riskVars, valVars, coreVars>>

\* The form is submitted with a name and a url; the button is disabled
\* while submitting.
FeedList_handleSubmit ==
    /\ route = "FeedList"
    /\ ~view.submitting
    /\ FeedList_send([view EXCEPT !.submitting = TRUE], "addFeed", 0)

\* Remove on a listed feed, confirmed; the list is hidden while loading.
FeedList_handleRemove(feedId) ==
    /\ route = "FeedList"
    /\ ~view.loading
    /\ feedId \in Shown(view.feeds)
    /\ FeedList_send(view, "removeFeed", feedId)

\* A Refresh button, disabled while refreshing; the one of a feed is
\* hidden while loading and the global one is disabled on an empty list.
FeedList_handleRefresh ==
    /\ route = "FeedList"
    /\ ~view.refreshing
    /\ view.feeds # <<>>
    /\ FeedList_send([view EXCEPT !.refreshing = TRUE], "refreshFeeds", 0)

\* The backend serves a request, or refuses it.
Backend_serves(c) ==
    /\ c \in calls
    /\ ~c.reply.served
    /\ LET answer(data) ==
             calls' = (calls \ {c}) \cup {[c EXCEPT !.reply = Reply(TRUE, data)]}
       IN  CASE c.api = "getFeeds" ->
                  /\ answer(FeedsListed(server.feeds))
                  /\ UNCHANGED server
             [] c.api = "addFeed" ->
                  /\ answer(<<server.nextId>>)
                  /\ server' = [feeds |-> server.feeds \cup {server.nextId},
                                nextId |-> server.nextId + 1]
             [] c.api = "removeFeed" /\ c.feedId \in server.feeds ->
                  /\ answer(<<>>)
                  /\ server' = [server EXCEPT !.feeds = @ \ {c.feedId}]
             [] c.api = "removeFeed" /\ c.feedId \notin server.feeds ->
                  /\ calls' = (calls \ {c})
                                 \cup {[c EXCEPT !.reply = Reply(FALSE, <<>>)]}
                  /\ UNCHANGED server
             [] c.api = "refreshFeeds" ->
                  /\ answer(<<>>)
                  /\ UNCHANGED server
    /\ UNCHANGED <<route, view, clock, hist>>
    /\ UNCHANGED <<riskVars, valVars, coreVars>>

Backend_refuses(c) ==
    /\ c \in calls
    /\ ~c.reply.served
    /\ calls' = (calls \ {c}) \cup {[c EXCEPT !.reply = Reply(FALSE, <<>>)]}
    /\ UNCHANGED <<route, view, server, clock, hist>>
    /\ UNCHANGED <<riskVars, valVars, coreVars>>

\* The reply to getFeeds reaches loadFeeds: try or catch, then finally.
\* When handleRefresh awaited this loadFeeds, its finally block follows.
FeedList_loadFeedsSettles(c) ==
    /\ route = "FeedList"
    /\ c \in calls
    /\ c.api = "getFeeds"
    /\ c.reply.served
    /\ LET v == IF c.reply.ok
                THEN [view EXCEPT !.feeds = c.reply.data, !.error = Null,
                                  !.loading = FALSE]
                ELSE [view EXCEPT !.error = "Failed to load feeds",
                                  !.loading = FALSE]
       IN  view' = IF c.from = "handleRefresh"
                   THEN [v EXCEPT !.refreshing = FALSE] ELSE v
    /\ calls' = calls \ {c}
    /\ UNCHANGED <<route, server, clock, hist>>
    /\ UNCHANGED <<riskVars, valVars, coreVars>>

\* The reply to addFeed reaches handleSubmit.
FeedList_handleSubmitSettles(c) ==
    /\ route = "FeedList"
    /\ c \in calls
    /\ c.api = "addFeed"
    /\ c.reply.served
    /\ IF c.reply.ok
       THEN /\ view' = [view EXCEPT !.feeds = Append(@, c.reply.data[1]),
                                    !.error = Null,
                                    !.submitting = FALSE]
            /\ hist' = [hist EXCEPT !.added = @ \cup {c.reply.data[1]}]
       ELSE /\ view' = [view EXCEPT !.error = "Failed to add feed",
                                    !.submitting = FALSE]
            /\ UNCHANGED hist
    /\ calls' = calls \ {c}
    /\ UNCHANGED <<route, server, clock>>
    /\ UNCHANGED <<riskVars, valVars, coreVars>>

\* The reply to removeFeed reaches handleRemove.
FeedList_handleRemoveSettles(c) ==
    /\ route = "FeedList"
    /\ c \in calls
    /\ c.api = "removeFeed"
    /\ c.reply.served
    /\ IF c.reply.ok
       THEN /\ view' = [view EXCEPT
                          !.feeds = SelectSeq(@, LAMBDA f : f # c.feedId),
                          !.error = Null]
            /\ hist' = [hist EXCEPT !.removed = @ \cup {c.feedId}]
       ELSE /\ view' = [view EXCEPT !.error = "Failed to remove feed"]
            /\ UNCHANGED hist
    /\ calls' = calls \ {c}
    /\ UNCHANGED <<route, server, clock>>
    /\ UNCHANGED <<riskVars, valVars, coreVars>>

\* The reply to refreshFeeds reaches handleRefresh: on success it calls
\* loadFeeds and awaits it, on failure it ends.
FeedList_handleRefreshSettles(c) ==
    /\ route = "FeedList"
    /\ c \in calls
    /\ c.api = "refreshFeeds"
    /\ c.reply.served
    /\ IF c.reply.ok
       THEN /\ view' = [view EXCEPT !.loading = TRUE]
            /\ calls' = (calls \ {c}) \cup
                  {[id |-> hist.requests + 1, api |-> "getFeeds",
                    feedId |-> 0, from |-> "handleRefresh",
                    reply |-> Unserved]}
            /\ hist' = [hist EXCEPT !.requests = @ + 1]
       ELSE /\ view' = [view EXCEPT !.error = "Failed to refresh feeds",
                                    !.refreshing = FALSE]
            /\ calls' = calls \ {c}
            /\ UNCHANGED hist
    /\ UNCHANGED <<route, server, clock>>
    /\ UNCHANGED <<riskVars, valVars, coreVars>>

FeedListState ==
    [feeds |-> <<>>, loading |-> TRUE, error |-> Null,
     submitting |-> FALSE, refreshing |-> FALSE]

InitFeedList ==
    /\ route = "FeedList"
    /\ view = FeedListState
    /\ calls = {[id |-> 1, api |-> "getFeeds", feedId |-> 0,
                 from |-> "mount", reply |-> Unserved]}
    /\ server = [feeds |-> StoredFeeds, nextId |-> 2]
    /\ hist = [requests |-> 1, clicks |-> 0, added |-> {}, removed |-> {}]
    /\ clock = 0
    /\ RiskIdle /\ ValIdle /\ CoreIdle

NextFeedList ==
    \/ FeedList_handleSubmit
    \/ \E feedId \in 1..(MaxFeedClicks + 1) : FeedList_handleRemove(feedId)
    \/ FeedList_handleRefresh
    \/ \E c \in calls : Backend_serves(c)
    \/ \E c \in calls : Backend_refuses(c)
    \/ \E c \in calls : FeedList_loadFeedsSettles(c)
    \/ \E c \in calls : FeedList_handleSubmitSettles(c)
    \/ \E c \in calls : FeedList_handleRemoveSettles(c)
    \/ \E c \in calls : FeedList_handleRefreshSettles(c)

SpecFeedList == InitFeedList /\ [][NextFeedList]_vars

\* C14: a feed that a successful handleSubmit added is in the list as long
\* as no handleRemove for its id has succeeded, and a feed that a
\* successful handleRemove removed is not in the list, whenever the replies
\* of the loadFeeds requests arrive.
FeedsFollowSubmitAndRemove ==
    route = "FeedList" =>
        /\ \A f \in hist.added \ hist.removed : f \in Shown(view.feeds)
        /\ \A f \in hist.removed : f \notin Shown(view.feeds)

\* ------------------------------------------------------------------------
\* ArticleDetail.  summaries[mode] is "null" while nothing is stored for
\* the mode, "summary" for a summary of the backend and "error" for the
\* entry {error: 'Failed to generate summary'}.
\* ------------------------------------------------------------------------

\* How many times the route parameter id changes.
MaxNavigations == 1

\* The modes for which getArticleSummaries may bring a summary.
SummariesStored == {{}, {"soc"}}

\* The effect on [id]: loadArticle up to its await.
ArticleDetail_loadArticle(v, articleId) ==
    /\ view' = [v EXCEPT !.loading = TRUE]
    /\ calls' = calls \cup {[api |-> "loadArticle", id |-> articleId,
                             mode |-> "none"]}
    /\ UNCHANGED <<route, server, clock>>
    /\ UNCHANGED <<riskVars, valVars, coreVars>>

\* The router hands the component another article id.
ArticleDetail_navigate(articleId) ==
    /\ route = "ArticleDetail"
    /\ hist.navigations < MaxNavigations
    /\ articleId # view.id
    /\ hist' = [hist EXCEPT !.navigations = @ + 1]
    /\ ArticleDetail_loadArticle([view EXCEPT !.id = articleId], articleId)

\* Promise.all of getArticle and getArticleSummaries resolves (a failed
\* getArticleSummaries counts as an empty list).
ArticleDetail_loadArticleResolves(c, existing) ==
    /\ route = "ArticleDetail"
    /\ c \in calls
    /\ c.api = "loadArticle"
    /\ view' = [view EXCEPT
                  !.article = c.id,
                  !.summaries = [m \in Modes |->
                      IF m \in existing THEN "summary" ELSE "null"],
                  !.error = Null,
                  !.loading = FALSE]
    /\ calls' = calls \ {c}
    /\ UNCHANGED <<route, server, clock, hist>>
    /\ UNCHANGED <<riskVars, valVars, coreVars>>

ArticleDetail_loadArticleRejects(c) ==
    /\ route = "ArticleDetail"
    /\ c \in calls
    /\ c.api = "loadArticle"
    /\ view' = [view EXCEPT !.error = "Failed to load article",
                            !.loading = FALSE]
    /\ calls' = calls \ {c}
    /\ UNCHANGED <<route, server, clock, hist>>
    /\ UNCHANGED <<riskVars, valVars, coreVars>>

\* The mode buttons are rendered once the article is there.
ModeButtonsShown ==
    ~view.loading /\ view.error = Null /\ view.article # 0

\* Variant: a click generates a summary whatever is stored for the mode.
ArticleDetail_modeClickAlways(mode) ==
    /\ route = "ArticleDetail"
    /\ ModeButtonsShown
    /\ ~view.summaryLoading[mode]
    /\ hist' = [hist EXCEPT !.clicked = [mode |-> mode,
                                         found |-> view.summaries[mode]]]
    /\ view' = [view EXCEPT !.activeMode = mode,
                            !.summaryLoading[mode] = TRUE]
    /\ calls' = calls \cup {[api |-> "summarizeArticle", id |-> view.id,
                             mode |-> mode]}
    /\ UNCHANGED <<route, server, clock>>
    /\ UNCHANGED <<riskVars, valVars, coreVars>>

\* A click on a mode button (disabled while its summary is loading):
\* setActiveMode, and generateSummary up to its await when nothing is
\* stored for the mode.
ArticleDetail_modeClick(mode) ==
    /\ route = "ArticleDetail"
    /\ ModeButtonsShown
    /\ ~view.summaryLoading[mode]
    /\ hist' = [hist EXCEPT !.clicked = [mode |-> mode,
                                         found |-> view.summaries[mode]]]
    /\ IF view.summaries[mode] = "null"
       THEN /\ view' = [view EXCEPT !.activeMode = mode,
                                    !.summaryLoading[mode] = TRUE]
            /\ calls' = calls \cup {[api |-> "summarizeArticle",
                                     id |-> view.id, mode |-> mode]}
       ELSE /\ view' = [view EXCEPT !.activeMode = mode]
            /\ UNCHANGED calls
    /\ UNCHANGED <<route, server, clock>>
    /\ UNCHANGED <<riskVars, valVars, coreVars>>

\* generateSummary after its await: try or catch, then finally.
ArticleDetail_generateSummarySettles(c, ok) ==
    /\ route = "ArticleDetail"
    /\ c \in calls
    /\ c.api = "summarizeArticle"
    /\ view' = [view EXCEPT
                  !.summaries[c.mode] = IF ok THEN "summary" ELSE "error",
                  !.summaryLoading[c.mode] = FALSE]
    /\ calls' = calls \ {c}
    /\ UNCHANGED <<route, server, clock, hist>>
    /\ UNCHANGED <<riskVars, valVars, coreVars>>

ArticleDetailState ==
    [article |-> 0, loading |-> TRUE, error |-> Null,
     summaries |-> [m \in Modes |-> "null"],
     summaryLoading |-> [m \in Modes |-> FALSE],
     activeMode |-> "soc"]

InitArticleDetail ==
    /\ route = "ArticleDetail"
    /\ \E articleId \in ArticleIds :
          /\ view = [s \in DOMAIN ArticleDetailState \cup {"id"} |->
                       IF s = "id" THEN articleId ELSE ArticleDetailState[s]]
          /\ calls = {[api |-> "loadArticle", id |-> articleId,
                       mode |-> "none"]}
    /\ hist = [navigations |-> 0,
               clicked |-> [mode |-> "none", found |-> "null"]]
    /\ server = {}
    /\ clock = 0
    /\ RiskIdle /\ ValIdle /\ CoreIdle

NextArticleDetail ==
    \/ \E articleId \in ArticleIds : ArticleDetail_navigate(articleId)
    \/ \E c \in calls : \E existing \in SummariesStored :
          ArticleDetail_loadArticleResolves(c, existing)
    \/ \E c \in calls : ArticleDetail_loadArticleRejects(c)
    \/ \E mode \in Modes : ArticleDetail_modeClick(mode)
    \/ \E c \in calls : \E ok \in BOOLEAN :
          ArticleDetail_generateSummarySettles(c, ok)

SpecArticleDetail == InitArticleDetail /\ [][NextArticleDetail]_vars

Summarizing(S, mode) ==
    {c \in S : c.api = "summarizeArticle" /\ c.mode = mode}

\* C16: in ArticleDetail at most one summarize request per mode is in
\* flight; a summarize request is issued only by a click on a mode for
\* which nothing is stored; and an entry stored for a mode (a summary or an
\* error) stays until a loadArticle brings the summaries of an article
\* again, so that no further request for the mode is issued meanwhile and a
\* failed generation is not retried.
SummarizeOncePerMode ==
    /\ [](route = "ArticleDetail" =>
            \A m \in Modes : Cardinality(Summarizing(calls, m)) <= 1)
    /\ [][\A m \in Modes :
            /\ Summarizing(calls', m) \ calls # {}
               => /\ view.summaries[m] = "null"
                  /\ Summarizing(calls, m) = {}
                  /\ hist'.clicked.mode = m
            /\ (view.summaries[m] # "null" /\ view'.summaries[m] = "null")
               => \E c \in calls \ calls' : c.api = "loadArticle"]_vars

\* The user clicked a mode whose generation had failed: the error entry is
\* still there and no request was sent.
FailedSummaryClickedAgain ==
    /\ route = "ArticleDetail"
    /\ hist.clicked.found = "error"
    /\ view.activeMode = hist.clicked.mode
    /\ view.summaries[hist.clicked.mode] = "error"
    /\ Summarizing(calls, hist.clicked.mode) = {}

\* ------------------------------------------------------------------------
\* ArticleList: the summaries of the listed articles.  The key
\* articleId-mode of the code is the pair <<articleId, mode>>; an object
\* without the key holds "null" (FALSE for summaryLoading).
\* ------------------------------------------------------------------------

\* How many times the user clicks a mode button of the list.
MaxSummaryClicks == 3

\* The mode whose summary the panel of an article shows, and the panel.
ActiveModeOf(v, articleId) ==
    IF v.activeModes[articleId] = "null" THEN "soc"
    ELSE v.activeModes[articleId]
CurrentSummary(v, articleId) ==
    v.summaries[<<articleId, ActiveModeOf(v, articleId)>>]

\* A click on a mode button of a listed article (disabled while that
\* summary is loading): generateSummary up to its await.
ArticleList_generateSummary(articleId, mode) ==
    /\ route = "ArticleList"
    /\ view.articles.length > 0
    /\ hist.clicks < MaxSummaryClicks
    /\ ~view.summaryLoading[<<articleId, mode>>]
    /\ view' = [view EXCEPT !.summaryLoading[<<articleId, mode>>] = TRUE]
    /\ calls' = calls \cup {[api |-> "summarizeArticle", id |-> articleId,
                             mode |-> mode]}
    /\ hist' = [hist EXCEPT !.clicks = @ + 1]
    /\ UNCHANGED <<route, server, clock>>
    /\ UNCHANGED <<riskVars, valVars, coreVars>>

\* generateSummary after its await: try or catch, then finally.
ArticleList_generateSummarySettles(c, ok) ==
    /\ route = "ArticleList"
    /\ c \in calls
    /\ c.api = "summarizeArticle"
    /\ view' = IF ok
               THEN [view EXCEPT
                       !.summaries[<<c.id, c.mode>>] = "summary",
                       !.activeModes[c.id] = c.mode,
                       !.summaryLoading[<<c.id, c.mode>>] = FALSE]
               ELSE [view EXCEPT
                       !.summaries[<<c.id, c.mode>>] = "error",
                       !.summaryLoading[<<c.id, c.mode>>] = FALSE]
    /\ calls' = calls \ {c}
    /\ UNCHANGED <<route, server, clock, hist>>
    /\ UNCHANGED <<riskVars, valVars, coreVars>>

\* The list once its first page is there.
InitArticleSummaries ==
    /\ route = "ArticleList"
    /\ view = [ArticleListState EXCEPT
                 !.articles = ListResponse(ArticleParams(0))]
    /\ calls = {}
    /\ hist = [issued |-> 1, clicks |-> 0]
    /\ server = {}
    /\ clock = 0
    /\ RiskIdle /\ ValIdle /\ CoreIdle

NextArticleSummaries ==
    \/ \E articleId \in ArticleIds : \E mode \in Modes :
          ArticleList_generateSummary(articleId, mode)
    \/ \E c \in calls : \E ok \in BOOLEAN :
          ArticleList_generateSummarySettles(c, ok)

SpecArticleSummaries ==
    InitArticleSummaries /\ [][NextArticleSummaries]_vars

\* C17: when generateSummary(articleId, mode) has settled, the summary
\* panel of the article shows what it stored for that mode: the summary
\* after a success, the error entry after a failure.
PanelShowsOutcome ==
    [][\A c \in calls \ calls' :
          c.api = "summarizeArticle"
          => CurrentSummary(view', c.id) = view'.summaries[<<c.id, c.mode>>]
       ]_vars

=============================================================================
